---- MODULE Spec2Model ----
(***************************************************************************)
(* Model of drain's aggregation steps (src/aggregation.py):               *)
(* AggregationBase, SimpleAggregation and SpacetimeAggregation.           *)
(*                                                                         *)
(* A Python object is a function from attribute names to values, a call   *)
(* is a function from keyword names to values, a list is a sequence and a *)
(* dict is a function whose keys are iterated in hash-slot order.  Values *)
(* that can have several Python types carry a tag t.  An operation that   *)
(* can raise returns [ok |-> FALSE, err |-> <exception>].                 *)
(***************************************************************************)
EXTENDS Integers, Sequences, FiniteSets, TLC

\* ------------------------------------------------------------------ bounds
MaxIndexes == 2     \* longest list of index names given to SimpleAggregation
MaxDates == 2       \* longest list of dates given to SpacetimeAggregation
MaxDeltas == 2      \* longest list of deltas in one spacedelta

\* ------------------------------------------------------------ value spaces
Names == {"city", "region", "tract"}
IndexObjects == {"idx_city", "idx_region"}
Dates == {"2020-01-01", "2021-01-01"}
Deltas == {"1y", "2y"}
ArgNames == {"index", "date", "delta"}
\* SimpleAggregationSubclass stands for an implementation of
\* SimpleAggregation: a subclass whose only addition is the class attribute
\* `aggregates` that the SimpleAggregation docstring asks for.
Classes ==
    {"AggregationBase", "SimpleAggregation", "SimpleAggregationSubclass",
     "SpacetimeAggregation"}

\* The classes that run SimpleAggregation's methods.
IsSimple(cls) == cls \in {"SimpleAggregation", "SimpleAggregationSubclass"}

None == [t |-> "None"]
List(s) == [t |-> "list", v |-> s]
Dict(f) == [t |-> "dict", v |-> f]
BoundMethod == [t |-> "method"]

Ok(x) == [ok |-> TRUE, val |-> x]
\* made: the number of child configurations built before the exception.
Raise(e) == [ok |-> FALSE, err |-> e, made |-> 0]

\* Sequences over S of length at most n.
SeqsUpTo(S, n) == UNION {[1..k -> S] : k \in 0..n}

\* The elements of a sequence.
Range(s) == {s[i] : i \in DOMAIN s}

\* Slot of a key in a small CPython 2 dict (string hash modulo table size 8).
Slot(name) == IF name = "city" THEN 1 ELSE IF name = "region" THEN 2 ELSE 7

\* Keys of a dict in the order a for loop (or iteritems) visits them.
RECURSIVE SortKeys(_)
SortKeys(S) ==
    IF S = {} THEN <<>>
    ELSE LET k == CHOOSE x \in S : \A y \in S : Slot(x) <= Slot(y)
         IN <<k>> \o SortKeys(S \ {k})

DictIter(f) == SortKeys(DOMAIN f)

\* What `for x in v` visits: the elements of a list, the keys of a dict.
Iterate(v) == IF v.t = "dict" THEN DictIter(v.v) ELSE v.v

\* ------------------------------------------------------------ construction
\* Step.__init__ stores every keyword argument as an attribute.
Step_init(kw) == kw

\* Keyword defaults of AggregationBase.__init__.
Defaults ==
    [parallel |-> FALSE, concat |-> TRUE, target |-> FALSE,
     prefix |-> "", insert_args |-> None]

\* The attribute self.parallel_kwargs read by AggregationBase.__init__:
\* a property (a list of keyword subsets) in the two subclasses, a plain
\* bound method in the base class.
SimpleAggregation_parallel_kwargs(self) ==
    LET it == Iterate(self.indexes)
    IN [i \in DOMAIN it |-> [indexes |-> List(<<it[i]>>)]]

SpacetimeAggregation_parallel_kwargs(self) ==
    [i \in DOMAIN self.dates.v |->
        [spacedeltas |-> self.spacedeltas, dates |-> List(<<self.dates.v[i]>>)]]

parallel_kwargs(cls, self) ==
    IF IsSimple(cls)
    THEN List(SimpleAggregation_parallel_kwargs(self))
    ELSE IF cls = "SpacetimeAggregation"
    THEN List(SpacetimeAggregation_parallel_kwargs(self))
    ELSE BoundMethod

\* Parameters without a default in each class's __init__ (and in the
\* AggregationBase.__init__ it forwards to).
Required(cls) ==
    IF IsSimple(cls) THEN {"inputs", "indexes"}
    ELSE IF cls = "SpacetimeAggregation"
    THEN {"spacedeltas", "dates", "date_column", "censor_columns", "inputs"}
    ELSE {"inputs"}

RECURSIVE New(_, _)

\* if insert_args is None: self.insert_args = []
DefaultInsertArgs(self0) ==
    IF self0.insert_args.t = "None"
    THEN [self0 EXCEPT !["insert_args"] = List(<<>>)]
    ELSE self0

\* The keywords of self.__class__(inputs=inputs, parallel=False, ..., **kwargs)
\* for one element kwargs of parallel_kwargs; full holds the parameters of
\* the parent's __init__.
ChildKw(full, kwargs) ==
    kwargs @@
    [inputs |-> full.inputs, parallel |-> FALSE, concat |-> full.concat,
     target |-> full.target, insert_args |-> full.insert_args,
     prefix |-> full.prefix]

\* The loop body: the children are constructed in order and appended to
\* self.inputs; the first constructor that raises ends __init__.
AppendChildren(self1, children) ==
    LET bad == {i \in DOMAIN children : ~children[i].ok}
    IN IF bad # {}
       THEN LET first == CHOOSE i \in bad : \A j \in bad : i <= j
            IN [children[first] EXCEPT !.made = first - 1]
       ELSE Ok([self1 EXCEPT !["inputs"] =
                  [i \in DOMAIN children |-> children[i].val]])

\* for kwargs in self.parallel_kwargs: a bound method is not iterable.
Decompose(cls, full, self1, pk) ==
    IF pk.t # "list" THEN Raise("TypeError")
    ELSE AppendChildren(self1,
            [i \in DOMAIN pk.v |-> New(cls, ChildKw(full, pk.v[i]))])

\* The body of AggregationBase.__init__ after Step.__init__.
InitBody(cls, full, self1) ==
    IF ~full.parallel THEN Ok(self1)
    ELSE Decompose(cls, full, self1, parallel_kwargs(cls, self1))

\* AggregationBase.__init__ on an object of class cls called with keywords kw.
AggregationBase_init(cls, kw) ==
    InitBody(cls, kw @@ Defaults, DefaultInsertArgs(Step_init(kw @@ Defaults)))

\* if not isinstance(indexes, dict): self.indexes = {index: index ...}
NormaliseIndexes(kw, r) ==
    IF ~r.ok THEN r
    ELSE IF kw.indexes.t # "dict"
    THEN Ok([r.val EXCEPT !["indexes"] = Dict([n \in Range(kw.indexes.v) |-> n])])
    ELSE r

\* SimpleAggregation.__init__
SimpleAggregation_init(cls, kw) ==
    NormaliseIndexes(kw, AggregationBase_init(cls, kw))

\* SpacetimeAggregation.__init__
SpacetimeAggregation_init(kw) == AggregationBase_init("SpacetimeAggregation", kw)

\* The object a constructor returns knows its class.
Instance(cls, r) == IF r.ok THEN Ok(r.val @@ [class |-> cls]) ELSE r

\* cls(**kw): a missing required parameter is a TypeError.
New(cls, kw) ==
    IF ~(Required(cls) \subseteq DOMAIN kw) THEN Raise("TypeError")
    ELSE IF IsSimple(cls) THEN Instance(cls, SimpleAggregation_init(cls, kw))
    ELSE IF cls = "SpacetimeAggregation" THEN Instance(cls, SpacetimeAggregation_init(kw))
    ELSE Instance(cls, AggregationBase_init(cls, kw))

\* ------------------------------------------------------- argument expansion
\* self.indexes: the attribute in AggregationBase and SimpleAggregation, a
\* property building a list of one-entry dicts in SpacetimeAggregation.
SpacetimeAggregation_indexes(self) ==
    LET it == DictIter(self.spacedeltas.v)
    IN List([i \in DOMAIN it |-> Dict((it[i] :> self.spacedeltas.v[it[i]][1]))])

indexes(self) ==
    IF self.class = "SpacetimeAggregation" THEN Ok(SpacetimeAggregation_indexes(self))
    ELSE IF "indexes" \in DOMAIN self THEN Ok(self.indexes)
    ELSE Raise("AttributeError")

\* SimpleAggregation.arguments
SimpleAggregation_arguments(self) ==
    LET it == Iterate(self.indexes)
    IN [i \in DOMAIN it |-> [index |-> it[i]]]

\* The name `spacedeltas` read by the innermost loop of
\* SpacetimeAggregation.arguments is bound neither in the function nor in
\* the module: evaluating it raises NameError.
Lookup_spacedeltas == Raise("NameError")

\* SpacetimeAggregation.arguments: the innermost loop header is evaluated
\* as soon as there is a date and a spacedelta.
SpacetimeAggregation_arguments(self) ==
    IF self.dates.v = <<>> \/ DOMAIN self.spacedeltas.v = {} THEN Ok(<<>>)
    ELSE Lookup_spacedeltas

arguments(self) ==
    IF IsSimple(self.class) THEN Ok(SimpleAggregation_arguments(self))
    ELSE IF self.class = "SpacetimeAggregation" THEN SpacetimeAggregation_arguments(self)
    ELSE Raise("NotImplementedError")

\* indexes[name] as run evaluates it: a dict is looked up by key, a list
\* cannot be subscripted by a string.
GetItem(ix, name) ==
    IF ix.t = "dict"
    THEN IF name \in DOMAIN ix.v THEN Ok(ix.v[name]) ELSE Raise("KeyError")
    ELSE Raise("TypeError")

\* ---------------------------------------------------------------- executor
\* Number of groups (rows of the aggregate) of an index.
GroupsOf(index) == IF index \in {"idx_city", "city"} THEN 2 ELSE 1

\* Aggregator(table, aggregates): the n-th Aggregator built in a run.
Aggregator(n, table) == [id |-> n, table |-> table]

\* Aggregator.aggregate(index): one row per group of the index.
aggregate(agg, index) ==
    [g \in 1..GroupsOf(index) |->
        [agg |-> agg.id, table |-> agg.table, index |-> index, group |-> g,
         cols |-> <<>>]]

\* Whether self.aggregates resolves: the class defines it, or it was a
\* keyword of the constructor (which Step.__init__ stored). SimpleAggregation
\* itself does not define it.
HasAggregates(self) ==
    self.class = "SimpleAggregationSubclass" \/ "aggregates" \in DOMAIN self

\* SimpleAggregation.aggregator: a property, evaluated at every access;
\* reading self.aggregates raises AttributeError when nothing defines it.
SimpleAggregation_aggregator(self, n) ==
    IF HasAggregates(self) THEN Ok(Aggregator(n + 1, self.inputs[1]))
    ELSE Raise("AttributeError")

\* get_aggregator(**argument); n Aggregators were built before the call.
get_aggregator(self, argument, n) ==
    IF IsSimple(self.class)
    THEN SimpleAggregation_aggregator(self, n)
    ELSE Raise("NotImplementedError")

\* InsertArgs writing every name of the argument as a column.
InsertArgs_AllKeys(df, argument, insert_args) ==
    [r \in DOMAIN df |->
        [df[r] EXCEPT !.cols =
            [k \in DOMAIN argument \cup DOMAIN df[r].cols |->
                IF k \in DOMAIN argument THEN argument[k] ELSE df[r].cols[k]]]]

\* for k in argument: if k in self.insert_args: df[k] = argument[k]
InsertArgs(df, argument, insert_args) ==
    LET ks == {k \in DOMAIN argument : k \in Range(insert_args.v)}
    IN [r \in DOMAIN df |->
          [df[r] EXCEPT !.cols =
              [k \in ks \cup DOMAIN df[r].cols |->
                  IF k \in ks THEN argument[k] ELSE df[r].cols[k]]]]

\* pd.concat(dfs): the rows of the tables, in order.
RECURSIVE Concat(_)
Concat(dfs) == IF dfs = <<>> THEN <<>> ELSE Head(dfs) \o Concat(Tail(dfs))

\* The positions of the arguments whose index is name, ascending.
RECURSIVE Positions(_, _, _)
Positions(args, name, i) ==
    IF i > Len(args) THEN <<>>
    ELSE (IF args[i].index = name THEN <<i>> ELSE <<>>) \o Positions(args, name, i + 1)

\* The concat branch of run: group the tables by their argument's index.
ToConcat(args, tables) ==
    LET n == IF Len(args) < Len(tables) THEN Len(args) ELSE Len(tables)
        zipped == SubSeq(args, 1, n)
    IN [name \in {zipped[i].index : i \in 1..n} |->
          LET ps == Positions(zipped, name, 1)
          IN [j \in DOMAIN ps |-> tables[ps[j]]]]

Assemble(args, tables) ==
    LET tc == ToConcat(args, tables)
    IN Dict([name \in DOMAIN tc |-> Concat(tc[name])])

\* -------------------------------------------------------------------- state
VARIABLES
    pc,        \* "new", "ready", "failed", "loop", "done", "raised"
    call,      \* the constructor call: its class and keyword arguments
    root,      \* the configuration the caller constructed
    err,       \* the exception raised by the constructor or by run
    made,      \* child configurations built by the constructor
    self,      \* the configuration whose run is executing
    args,      \* the Argument list run iterates over
    i,         \* position of the run loop in args
    dfs,       \* the tables collected so far
    built,     \* Aggregators built so far in this run
    result     \* the value run returned

vars == <<pc, call, root, err, made, self, args, i, dfs, built, result>>

Init ==
    /\ pc = "new"
    /\ call = None
    /\ root = None
    /\ err = ""
    /\ made = 0
    /\ self = None
    /\ args = <<>>
    /\ i = 0
    /\ dfs = <<>>
    /\ built = 0
    /\ result = None

\* ------------------------------------------------------------------- inputs
InputChoices == {<<"stepA">>, <<"stepB">>}

Options ==
    { <<>>,
      [target |-> TRUE, prefix |-> "agg_"],
      [insert_args |-> List(<<"index">>)],
      [insert_args |-> List(<<"date", "delta">>), target |-> TRUE] }

CommonKw ==
    { [inputs |-> inp, parallel |-> p, concat |-> c] @@ o :
        inp \in InputChoices, p \in BOOLEAN, c \in BOOLEAN, o \in Options }

\* indexes: a list of distinct index names, or a dict from names to index
\* objects.
IndexesChoices ==
    {List(s) : s \in {q \in SeqsUpTo(Names, MaxIndexes) :
                        \A j, k \in DOMAIN q : j # k => q[j] # q[k]}} \cup
    {Dict(f) : f \in UNION {[S -> IndexObjects] : S \in SUBSET Names}}

IdxOf(name) ==
    IF name = "city" THEN "idx_city"
    ELSE IF name = "region" THEN "idx_region" ELSE "idx_tract"

\* The names used as keys of spacedeltas.
SpacedeltaNames == {"city", "region"}

\* spacedeltas: a dict {name: (index, deltas)}.
SpacedeltasChoices ==
    {Dict([n \in DOMAIN d |-> <<IdxOf(n), d[n]>>]) :
        d \in UNION {[S -> SeqsUpTo(Deltas, MaxDeltas)] :
                        S \in SUBSET SpacedeltaNames}}

\* aggregates: not passed, or passed as a keyword.
AggregatesChoices == {<<>>, [aggregates |-> List(<<"count">>)]}

DatesChoices == {List(s) : s \in SeqsUpTo(Dates, MaxDates)}

\* ------------------------------------------------------------------ actions
Constructed(cls, kw, r) ==
    /\ pc' = IF r.ok THEN "ready" ELSE "failed"
    /\ call' = [cls |-> cls, kw |-> kw]
    /\ root' = IF r.ok THEN r.val ELSE None
    /\ err' = IF r.ok THEN "" ELSE r.err
    /\ made' = IF r.ok
               THEN (IF r.val.parallel THEN Len(r.val.inputs) ELSE 0)
               ELSE r.made
    /\ UNCHANGED <<self, args, i, dfs, built, result>>

ConstructBase ==
    /\ pc = "new"
    /\ \E kw \in CommonKw : Constructed("AggregationBase", kw, New("AggregationBase", kw))

ConstructSimple ==
    /\ pc = "new"
    /\ \E cls \in {c \in Classes : IsSimple(c)}, kw \in CommonKw,
          ix \in IndexesChoices, ag \in AggregatesChoices :
          \E k \in {kw @@ [indexes |-> ix] @@ ag} :
             Constructed(cls, k, New(cls, k))

ConstructSpacetime ==
    /\ pc = "new"
    /\ \E kw \in CommonKw, sd \in SpacedeltasChoices, ds \in DatesChoices :
          \E k \in {kw @@ [spacedeltas |-> sd, dates |-> ds,
                            date_column |-> "date",
                            censor_columns |-> List(<<"closed">>)]} :
             Constructed("SpacetimeAggregation", k, New("SpacetimeAggregation", k))

\* The configurations the step framework runs: the root and, when the
\* root is parallel, its inputs.
Runnable == {root} \cup (IF root.parallel THEN Range(root.inputs) ELSE {})

\* run on a parallel configuration: the children's results pass through.
RunParallel ==
    /\ pc = "ready"
    /\ root.parallel
    /\ \E a \in SeqsUpTo({"r1", "r2"}, 2), k \in SUBSET {"indexes", "dates"} :
          result' = IF root.concat THEN Dict([n \in k |-> "r1"]) ELSE List(a)
    /\ self' = root
    /\ pc' = "done"
    /\ UNCHANGED <<call, root, err, made, args, i, dfs, built>>

\* run on a non-parallel configuration, up to the loop header.
RunBegin ==
    /\ pc = "ready"
    /\ \E s \in Runnable :
          /\ ~s.parallel
          /\ self' = s
          /\ LET a == arguments(s)
             IN IF a.ok
                THEN /\ args' = a.val
                     /\ pc' = "loop"
                     /\ i' = 1
                     /\ err' = err
                ELSE /\ args' = args
                     /\ pc' = "raised"
                     /\ i' = i
                     /\ err' = a.err
    /\ UNCHANGED <<call, root, made, dfs, built, result>>

\* One iteration of the loop over the arguments.
RunIter ==
    /\ pc = "loop"
    /\ i <= Len(args)
    /\ LET argument == args[i]
           ga == get_aggregator(self, argument, built)
           ixs == indexes(self)
           ix == IF ixs.ok THEN GetItem(ixs.val, argument.index) ELSE ixs
       IN IF ~ga.ok
          THEN /\ pc' = "raised" /\ err' = ga.err
               /\ UNCHANGED <<i, dfs, built>>
          ELSE IF ~ix.ok
          THEN /\ pc' = "raised" /\ err' = ix.err /\ built' = built + 1
               /\ UNCHANGED <<i, dfs>>
          ELSE /\ dfs' = Append(dfs, InsertArgs(aggregate(ga.val, ix.val),
                                                argument, self.insert_args))
               /\ built' = built + 1
               /\ i' = i + 1
               /\ UNCHANGED <<pc, err>>
    /\ UNCHANGED <<call, root, made, self, args, result>>

\* After the loop: concatenate per index name, or return the list.
RunAssemble ==
    /\ pc = "loop"
    /\ i > Len(args)
    /\ IF self.concat
       THEN LET a == arguments(self)
            IN IF a.ok
               THEN /\ result' = Assemble(a.val, dfs) /\ pc' = "done" /\ err' = err
               ELSE /\ result' = result /\ pc' = "raised" /\ err' = a.err
       ELSE /\ result' = List(dfs) /\ pc' = "done" /\ err' = err
    /\ UNCHANGED <<call, root, made, self, args, i, dfs, built>>

Next ==
    \/ ConstructBase
    \/ ConstructSimple
    \/ ConstructSpacetime
    \/ RunParallel
    \/ RunBegin
    \/ RunIter
    \/ RunAssemble

Spec == Init /\ [][Next]_vars

\* ------------------------------------------------------------------- claims
\* C1: for a Simple or Space-time configuration constructed with
\* parallel=True, the children's Argument sequences together are, as a
\* multiset, the Argument sequence of the same configuration constructed
\* with parallel=False, and no Argument belongs to two children.
C1_ParallelPartition ==
    (pc \in {"ready", "failed"} /\ call.kw.parallel
        /\ call.cls # "AggregationBase") =>
      LET twin == New(call.cls, [call.kw EXCEPT !["parallel"] = FALSE])
          whole == arguments(twin.val)
      IN /\ pc = "ready"
         /\ whole.ok
         /\ \A c \in DOMAIN root.inputs : arguments(root.inputs[c]).ok
         /\ LET part(c) == arguments(root.inputs[c]).val
                all == Range(whole.val) \cup
                       UNION {Range(part(c)) : c \in DOMAIN root.inputs}
                count(sq, a) == Cardinality({k \in DOMAIN sq : sq[k] = a})
                RECURSIVE total(_, _)
                total(c, a) == IF c = 0 THEN 0
                               ELSE count(part(c), a) + total(c - 1, a)
            IN /\ \A a \in all : total(Len(root.inputs), a) = count(whole.val, a)
               /\ \A c, d \in DOMAIN root.inputs :
                     c # d => Range(part(c)) \cap Range(part(d)) = {}

\* C2: arguments of a Space-time configuration returns, without raising,
\* one Argument per date, spacedelta and delta of that spacedelta, dates
\* outermost, then spacedeltas, then deltas.
C2_SpacetimeArguments ==
    (pc = "ready" /\ root.class = "SpacetimeAggregation") =>
      LET names == DictIter(root.spacedeltas.v)
          deltas(n) == root.spacedeltas.v[n][2]
          perName(d, n) ==
              [j \in DOMAIN deltas(n) |->
                  [date |-> d, delta |-> deltas(n)[j], index |-> n]]
          RECURSIVE perDate(_, _)
          perDate(d, k) ==
              IF k > Len(names) THEN <<>>
              ELSE perName(d, names[k]) \o perDate(d, k + 1)
          RECURSIVE product(_)
          product(k) ==
              IF k > Len(root.dates.v) THEN <<>>
              ELSE perDate(root.dates.v[k], 1) \o product(k + 1)
          a == arguments(root)
      IN a.ok /\ a.val = product(1)

\* C3: run on a non-parallel configuration with concat=True (Space-time,
\* or Simple with its aggregates defined) returns a
\* mapping whose keys are the index names of the Arguments and whose value
\* for a name is the concatenation, in Argument order, of the tables of
\* the Arguments with that index; row counts add up.
C3_ConcatPartition ==
    (pc \in {"done", "raised"} /\ ~self.parallel /\ self.concat
        /\ self.class # "AggregationBase"
        /\ (IsSimple(self.class) => HasAggregates(self))) =>
      /\ pc = "done"
      /\ result.t = "dict"
      /\ Len(dfs) = Len(args)
      /\ DOMAIN result.v = {args[k].index : k \in DOMAIN args}
      /\ \A n \in DOMAIN result.v :
            LET ps == Positions(args, n, 1)
                RECURSIVE rows(_)
                rows(j) == IF j > Len(ps) THEN <<>> ELSE dfs[ps[j]] \o rows(j + 1)
                RECURSIVE size(_)
                size(j) == IF j > Len(ps) THEN 0 ELSE Len(dfs[ps[j]]) + size(j + 1)
            IN /\ result.v[n] = rows(1)
               /\ Len(result.v[n]) = size(1)

\* C4: run on a non-parallel configuration with concat=False (Space-time,
\* or Simple with its aggregates defined) returns one
\* table per Argument, the i-th being the aggregate of the i-th Argument.
C4_DisjointAligned ==
    (pc \in {"done", "raised"} /\ ~self.parallel /\ ~self.concat
        /\ self.class # "AggregationBase"
        /\ (IsSimple(self.class) => HasAggregates(self))) =>
      /\ pc = "done"
      /\ result.t = "list"
      /\ Len(result.v) = Len(arguments(self).val)
      /\ \A k \in DOMAIN result.v :
            \A r \in DOMAIN result.v[k] :
               result.v[k][r].index = self.indexes.v[arguments(self).val[k].index]

\* C5: in the output of a non-parallel run every row of the table of an
\* Argument a carries a[n] in column n for each name n of a that is in
\* insert_args, and no column for the names of a that are not.
C5_InsertedColumns ==
    (pc = "done" /\ ~self.parallel) =>
      LET inserted(a) == DOMAIN a \cap Range(self.insert_args.v)
          good(row, a) ==
              /\ \A n \in inserted(a) :
                    n \in DOMAIN row.cols /\ row.cols[n] = a[n]
              /\ \A n \in DOMAIN a \ inserted(a) : n \notin DOMAIN row.cols
      IN IF self.concat
         THEN \A name \in DOMAIN result.v :
                 \A r \in DOMAIN result.v[name] :
                    \E k \in DOMAIN args :
                       /\ args[k].index = name
                       /\ result.v[name][r] \in Range(dfs[k])
                       /\ good(result.v[name][r], args[k])
         ELSE /\ Len(result.v) = Len(args)
              /\ \A k \in DOMAIN args :
                    \A r \in DOMAIN result.v[k] : good(result.v[k][r], args[k])

\* A Simple run over two Arguments with `index` in insert_args has returned.
C5_Witness ==
    /\ pc = "done"
    /\ ~self.parallel
    /\ Len(args) = 2
    /\ "index" \in Range(self.insert_args.v)
    /\ \A k \in DOMAIN dfs : \A r \in DOMAIN dfs[k] : dfs[k][r].cols["index"] = args[k].index

\* C6: constructing a Simple or Space-time configuration with
\* parallel=True succeeds and leaves as the parent's inputs one child per
\* element of parallel_kwargs, of the same class, with parallel=False and
\* the parent's inputs and the parent's value of every option that the
\* element of parallel_kwargs does not override.
C6_ChildrenCloneParent ==
    (pc \in {"ready", "failed"} /\ call.kw.parallel
        /\ call.cls # "AggregationBase") =>
      LET given == call.kw @@ Defaults
          pk == parallel_kwargs(call.cls, Step_init(given)).v
          kept(c) == DOMAIN root \ ({"inputs", "parallel", "class"} \cup DOMAIN pk[c])
      IN /\ pc = "ready"
         /\ Len(root.inputs) = Len(pk)
         /\ made = Len(pk)
         /\ \A c \in DOMAIN root.inputs :
               LET child == root.inputs[c]
               IN /\ child.class = root.class
                  /\ ~child.parallel
                  /\ child.inputs = given.inputs
                  /\ \A f \in kept(c) : f \in DOMAIN child /\ child[f] = root[f]

\* C7: constructing with parallel=True a configuration whose class
\* inherits parallel_kwargs from the base fails with a "not implemented"
\* error and creates no child.
C7_AbstractDecomposition ==
    (pc \in {"ready", "failed"} /\ call.kw.parallel
        /\ call.cls = "AggregationBase") =>
      /\ pc = "failed"
      /\ err = "NotImplementedError"
      /\ made = 0

\* C8: one non-parallel run of a Simple configuration builds at most one
\* Aggregator, and every Argument is aggregated with that instance.
C8_AggregatorBuiltOnce ==
    (pc = "done" /\ ~self.parallel /\ IsSimple(self.class)) =>
      /\ built <= 1
      /\ \A j, k \in DOMAIN dfs :
            \A r \in DOMAIN dfs[j], q \in DOMAIN dfs[k] : dfs[j][r].agg = dfs[k][q].agg

\* C9: every Argument that arguments produces for a Simple or Space-time
\* configuration names a key of the configuration's indexes, so the lookup
\* indexes[argument['index']] succeeds.
C9_IndexKeyPresent ==
    (pc = "ready" /\ root.class # "AggregationBase") =>
      \A c \in Runnable :
         LET a == arguments(c)
             ix == indexes(c)
         IN /\ a.ok
            /\ ix.ok
            /\ \A k \in DOMAIN a.val : GetItem(ix.val, a.val[k].index).ok

\* C10: every child of a parallel Simple configuration whose indexes were
\* given as a mapping resolves its index name to the index object the
\* parent's mapping gives it.
C10_ChildIndexObject ==
    (pc = "ready" /\ IsSimple(root.class) /\ root.parallel
        /\ call.kw.indexes.t = "dict") =>
      \A c \in DOMAIN root.inputs :
         \A n \in DOMAIN root.inputs[c].indexes.v :
            /\ n \in DOMAIN root.indexes.v
            /\ root.inputs[c].indexes.v[n] = root.indexes.v[n]
====
